---- MODULE Spec2Model ----
(***************************************************************************)
(* UI-coverage collection of src/fixtures/ui_coverage.py: the pytest       *)
(* plugin UiCoveragePlugin and the CoverageManager it drives, run by one   *)
(* standalone process or by a master and its slave processes, each slave   *)
(* on an appliance of its own.  A step of the model is one hook of the     *)
(* plugin or one blocking remote call of install(), collect() or merge().  *)
(***************************************************************************)
EXTENDS Integers, FiniteSets, Sequences, TLC

\* Most slave processes of a distributed run (one appliance each) under Spec;
\* SpecLarge is the run with one slave more.
MaxWorkers == 2
\* Most remote calls that end other than successfully in one run.
MaxFaults == 1
\* The raw result sets given to the report merger, the most lines of a file in
\* them and the largest hit count of a line in them.
MaxSets == 3
MaxLines == 2
MaxCount == 1
\* The most arguments of one call of a custom-attribute or policy-profile
\* method, the most custom attributes a provider has before the call, and the
\* number of policy profiles there are.
MaxArgs == 2
MaxAttrs == 2
MaxProfiles == 3

Master == 0
Procs == 0..(MaxWorkers + 1)
Appliances == 1..(MaxWorkers + 1)

NoConf == 0
\* Files hold sets of hosts (whose raw results they carry); these stand for a
\* file that is not there and for an archive left by an earlier session.
Absent == -1
Stale == -2
NoTar == {Absent}
NoArchive == {Absent}
StaleArchive == {Stale}

\* The result of a remote call: a successful result, an unsuccessful result
\* (non-zero exit), or an exception raised by the channel.
Outcomes == {"ok", "fail", "raise"}
\* restart_evm_service and wait_for_web_ui return nothing: they raise or not.
RaiseOutcomes == {"ok", "raise"}

InstallSteps == {"install_simplecov", "install_hook", "install_restart", "install_wait"}
CollectSteps == {"collect_stop", "collect_send", "collect_restart"}
MergeSteps == {"merge_tar", "merge_get"}

VARIABLES
    role,       \* process -> store.parallelizer_role, "none" for a process not in the run
    pc,         \* process -> the hook or remote call it is at
    calls,      \* process -> how often install, collect, merge were invoked on its manager
                \*            and how often the process reset the output directory ("clean")
    done,       \* process -> the manager methods that returned normally and completed
    seen,       \* process -> what the remote calls of the process answered (outcomes met)
    exc,        \* process -> "none", "internal_error" (raised in collection_finish), "crash"
    reported,   \* process -> messages given to print_message after a failure
    ranTests,   \* process -> it executed tests
    sent,       \* process -> the raw results its scp delivered to the collection appliance
    covDir,     \* appliance -> hosts whose raw results lie in /var/www/miq/vmdb/coverage
    evm,        \* appliance -> evmserverd: "plain", "instrumented", "stopped"
    hookFile,   \* appliance -> config/coverage_hook.rb is in place
    patched,    \* appliance -> lib/code_coverage.rb exists (patch 17302 applied)
    tmpTar,     \* appliance -> content of /tmp/ui-coverage-raw.tgz
    confFile,   \* the collection_appliance value of the .ui-coverage conf
    archive,    \* the local coverage-results.tgz
    faults,     \* remote calls that did not succeed so far
    raw,        \* the raw result sets the report merger is given
    pool,       \* the result sets the merger holds: raw ones and partial merges
    flagged,    \* the files reported as MismatchedFileShape
    ui_coverage,    \* config.option.ui_coverage: the run was started with --ui-coverage
    registered,     \* process -> how often its plugin manager registered UiCoveragePlugin
    version,        \* appliance -> its CFME version, <<major, minor>>
    patchTool,      \* appliance -> the patch rpm is installed (rpm -q patch succeeds)
    yumRepo,        \* appliance -> /etc/yum.repos.d/local.repo is there
    attribs,        \* the custom attributes the REST API holds for the provider
    call,           \* the call made on the provider: method, arguments, what came of it
    assigned,       \* _assigned_policy_profiles of the object, Unset while it has none
    lastOp,         \* profile name -> the last call that named it: "assign", "unassign"
    checked,        \* the profiles checked in the Manage Policies tree and saved
    policyCall      \* the last policy-profile call: method, set of names, what it raised

vars == <<role, pc, calls, done, seen, exc, reported, ranTests, sent,
          covDir, evm, hookFile, patched, tmpTar, confFile, archive, faults,
          raw, pool, flagged, ui_coverage, registered, version, patchTool, yumRepo,
          attribs, call, assigned, lastOp, checked, policyCall>>

procVars == <<calls, done, seen, exc, reported, ranTests, sent>>
applVars == <<covDir, evm, hookFile, patched, tmpTar>>
mergerVars == <<raw, pool, flagged>>
optVars == <<ui_coverage, registered, version>>
toolVars == <<patchTool, yumRepo>>
attrVars == <<attribs, call>>
policyVars == <<assigned, lastOp, checked, policyCall>>
sideVars == <<attrVars, policyVars>>

\* No method of a provider was called, and no policy-profile method of an object.
Profiles == 1..MaxProfiles
Unset == {0}
NoCall == [op |-> "none", args |-> <<>>, raised |-> "none", gets |-> 0,
           posted |-> FALSE, action |-> "none", resources |-> <<>>, before |-> <<>>]
NoAttrCall == attribs = <<>> /\ call = NoCall
NoPolicyCall ==
    /\ assigned = Unset
    /\ lastOp = [n \in Profiles |-> "none"]
    /\ checked = {}
    /\ policyCall = [op |-> "none", names |-> {}, raised |-> "none"]

\* store.current_appliance: the master uses the first appliance, slave w its own.
current_appliance(p) == IF p = Master THEN 1 ELSE p

\* CoverageManager.collection_appliance
IsSlaveRole(r) == r = "slave"
collection_appliance(p) ==
    IF IsSlaveRole(role[p]) THEN confFile ELSE current_appliance(p)

\* Variants of the role tests: install() or collect() left to the slaves alone,
\* collect() left to the standalone process alone.
CollectionFinishInstalls_SlaveOnly(r) == r = "slave"
SessionfinishCollects_SlaveOnly(r) == r = "slave"
SessionfinishCollects_StandaloneOnly(r) == r = "standalone"
\* Further variants: install() never called, install() or collect() called on
\* every process, the output directory reset on every process.
CollectionFinishInstalls_Never(r) == FALSE
CollectionFinishInstalls_Everyone(r) == TRUE
SessionfinishCollects_Everyone(r) == TRUE
ConfigureCleansDir_Everyone(r) == TRUE

\* The role tests of UiCoveragePlugin's hooks.
ConfigureCleansDir(r) == r # "slave"
SessionstartWritesConf(r) == r = "master"
CollectionFinishInstalls(r) == r # "master"
SessionfinishCollects(r) == r # "master"
SessionfinishReturnsEarly(r) == r = "slave"

Participants == {p \in Procs : role[p] # "none"}
SlaveProcs == {p \in Procs : role[p] = "slave"}

\* Whether a remote call may end with outcome o: failures are bounded.
MayEnd(o) == o = "ok" \/ faults < MaxFaults
Count(o) == IF o = "ok" THEN faults ELSE faults + 1

\* The state before the first hook of a run with n slaves, for some n of ns,
\* started with --ui-coverage or without, as opts allows; no slave is the
\* standalone run.
InitRun(ns, opts) ==
    /\ NoAttrCall
    /\ NoPolicyCall
    /\ ui_coverage \in opts
    /\ registered = [p \in Procs |-> 0]
    /\ \E n \in ns :
          role = [p \in Procs |->
                    IF n = 0 THEN (IF p = Master THEN "standalone" ELSE "none")
                    ELSE IF p = Master THEN "master"
                    ELSE IF p <= n THEN "slave" ELSE "none"]
    /\ pc = [p \in Procs |-> IF role[p] = "none" THEN "absent"
                             ELSE IF role[p] = "slave" THEN "unborn" ELSE "cmdline"]
    /\ calls = [p \in Procs |-> [install |-> 0, collect |-> 0, merge |-> 0, clean |-> 0]]
    /\ done = [p \in Procs |-> {}]
    /\ seen = [p \in Procs |-> {}]
    /\ exc = [p \in Procs |-> "none"]
    /\ reported = [p \in Procs |-> {}]
    /\ ranTests = [p \in Procs |-> FALSE]
    /\ sent = [p \in Procs |-> {}]
    /\ covDir = [a \in Appliances |-> {}]
    /\ evm = [a \in Appliances |-> "plain"]
    /\ hookFile = [a \in Appliances |-> FALSE]
    /\ tmpTar = [a \in Appliances |-> NoTar]
    \* Either nothing is left of an earlier coverage session, or it left the
    \* appliances patched, its conf and its archive.
    /\ \E earlier \in BOOLEAN :
          /\ patched = [a \in Appliances |-> earlier]
          /\ confFile = IF earlier THEN 1 ELSE NoConf
          /\ archive = IF earlier THEN StaleArchive ELSE NoArchive
    /\ faults = 0
    \* merge() does not call the merger: it is given nothing.
    /\ raw = <<>>
    /\ pool = <<>>
    /\ flagged = {}

\* CFME versions of appliances, and the first one CoverageManager supports.
Versions == {<<5, 7>>, <<5, 8>>, <<5, 10>>}
FirstSupported == <<5, 8>>
\* self.ipapp.version < '5.8': versions compare number by number.
VersionLess(v, w) == v[1] < w[1] \/ (v[1] = w[1] /\ v[2] < w[2])
\* Variant: CoverageManager takes an appliance of any version.
TooOld_Never(v) == FALSE
\* CoverageManager.__init__: if self.ipapp.version < '5.8'
TooOld(v) == VersionLess(v, FirstSupported)

AllSupported == version = [a \in Appliances |-> FirstSupported]
\* No appliance holds the temporary yum repository of an earlier install().
NoRepo == yumRepo = [a \in Appliances |-> FALSE]
\* Every appliance has the patch rpm.
AllTooled == NoRepo /\ patchTool = [a \in Appliances |-> TRUE]

\* The runs started with --ui-coverage, and the runs started either way, on
\* appliances of a supported version.
Init == InitRun(0..MaxWorkers, {TRUE}) /\ AllSupported /\ AllTooled
InitLarge == InitRun({MaxWorkers + 1}, {TRUE}) /\ AllSupported /\ AllTooled
InitOption == InitRun(0..MaxWorkers, BOOLEAN) /\ AllSupported /\ AllTooled
\* The runs in which one appliance that a process installs on lacks the patch rpm.
InitTool ==
    /\ InitRun(0..MaxWorkers, {TRUE})
    /\ AllSupported
    /\ NoRepo
    /\ \E a0 \in Appliances :
          /\ patchTool = [a \in Appliances |-> a # a0]
          /\ \E p \in Procs : role[p] \in {"slave", "standalone"} /\ current_appliance(p) = a0
\* The runs in which one appliance in use is of a version below the first
\* supported one, and the standalone runs on an appliance of any version.
InitVersion ==
    /\ InitRun(0..MaxWorkers, {TRUE})
    /\ \E a0 \in Appliances, v \in Versions :
          /\ version = [a \in Appliances |-> IF a = a0 THEN v ELSE FirstSupported]
          /\ \E p \in Procs : role[p] # "none" /\ current_appliance(p) = a0
          /\ ~VersionLess(v, FirstSupported) => role[Master] = "standalone"
    /\ AllTooled

Note(p, what) == [seen EXCEPT ![p] = @ \cup {what}]
Called(p, m) == [calls EXCEPT ![p][m] = @ + 1]
InstallMark(o) == IF o = "fail" THEN "install_fail" ELSE "install_raise"

(***************************************************************************)
(* The processes of a distributed run.  The master starts its slaves after *)
(* its own configuration and hands tests to them in its test loop, which   *)
(* ends when every slave process has ended.                                *)
(***************************************************************************)
MasterStartedSlaves == pc[Master] \in {"sessionstart", "collection", "runtest"}
TestsHandedOut(p) == role[p] = "standalone" \/ pc[Master] = "runtest"
WorkersFinished == \A w \in SlaveProcs : pc[w] = "done"

Spawn(p) ==
    /\ pc[p] = "unborn"
    /\ MasterStartedSlaves
    /\ pc' = [pc EXCEPT ![p] = "cmdline"]
    /\ UNCHANGED <<mergerVars, optVars, sideVars, toolVars, role, procVars, applVars, confFile, archive, faults>>

\* Variant: the plugin is registered whatever the option says.
PluginEnabled_Always(opt) == TRUE
\* pytest_cmdline_main: if config.option.ui_coverage
PluginEnabled(opt) == opt

\* pytest_cmdline_main: the plugin is registered when ui coverage is enabled.
PytestCmdlineMain(p) ==
    /\ pc[p] = "cmdline"
    /\ registered' = IF PluginEnabled(ui_coverage)
                     THEN [registered EXCEPT ![p] = @ + 1] ELSE registered
    /\ pc' = [pc EXCEPT ![p] = "configure"]
    /\ UNCHANGED <<mergerVars, ui_coverage, version, toolVars, sideVars, role, procVars,
                   applVars, confFile, archive, faults>>

\* The hooks of UiCoveragePlugin are called on a process that registered it.
Registered(p) == registered[p] > 0
PluginHooks == {"configure", "sessionstart", "collection", "sessionfinish"}
AfterHook(at) ==
    CASE at = "configure" -> "sessionstart"
      [] at = "sessionstart" -> "collection"
      [] at = "collection" -> "runtest"
      [] at = "sessionfinish" -> "done"

\* manager(): store.current_appliance.coverage, the CoverageManager of the
\* appliance of the process, which its constructor refuses to build for an
\* appliance that is too old.
ManagerBuilt(p) == ~TooOld(version[current_appliance(p)])
\* The hooks in which a process of role r calls manager().
CallsManager(at, r) ==
    CASE at = "sessionstart" -> r = "master"
      [] at = "collection" -> r # "master"
      [] at = "sessionfinish" -> TRUE
      [] OTHER -> FALSE

\* ApplianceVersionException leaves the hook that called manager(): raised in
\* pytest_sessionstart it ends the session before its session finish is due,
\* in pytest_collection_finish it is an internal error after which the
\* session finish still runs, and in pytest_sessionfinish it ends the process.
ManagerRaises(p) ==
    /\ pc[p] \in PluginHooks
    /\ Registered(p)
    /\ CallsManager(pc[p], role[p])
    /\ ~ManagerBuilt(p)
    /\ seen' = Note(p, "version_raise")
    /\ pc' = [pc EXCEPT ![p] = IF pc[p] = "collection" THEN "sessionfinish" ELSE "done"]
    /\ exc' = [exc EXCEPT ![p] = IF pc[p] = "sessionfinish" THEN "crash" ELSE "internal_error"]
    /\ UNCHANGED <<mergerVars, optVars, sideVars, toolVars, role, calls, done, reported, ranTests, sent,
                   applVars, confFile, archive, faults>>

\* A process without the plugin passes the point of a hook: nothing is called.
HookNotCalled(p) ==
    /\ pc[p] \in PluginHooks
    /\ ~Registered(p)
    /\ pc' = [pc EXCEPT ![p] = AfterHook(pc[p])]
    /\ UNCHANGED <<mergerVars, optVars, sideVars, toolVars, role, procVars, applVars, confFile, archive, faults>>

\* Variant: the output directory is left as it is.
clean_coverage_dir_Keeps == archive
\* clean_coverage_dir: the output directory is removed and created empty.
clean_coverage_dir == NoArchive

\* UiCoveragePlugin.pytest_configure
PytestConfigure(p) ==
    /\ pc[p] = "configure"
    /\ Registered(p)
    /\ archive' = IF ConfigureCleansDir(role[p]) THEN clean_coverage_dir ELSE archive
    /\ confFile' = NoConf
    /\ calls' = IF ConfigureCleansDir(role[p]) THEN Called(p, "clean") ELSE calls
    /\ pc' = [pc EXCEPT ![p] = "sessionstart"]
    /\ UNCHANGED <<mergerVars, optVars, sideVars, toolVars, role, done, seen, exc, reported, ranTests, sent,
                   applVars, faults>>

\* UiCoveragePlugin.pytest_sessionstart
PytestSessionstart(p) ==
    /\ pc[p] = "sessionstart"
    /\ Registered(p)
    /\ CallsManager(pc[p], role[p]) => ManagerBuilt(p)
    /\ confFile' = IF SessionstartWritesConf(role[p])
                   THEN collection_appliance(p) ELSE confFile
    /\ pc' = [pc EXCEPT ![p] = "collection"]
    /\ UNCHANGED <<mergerVars, optVars, sideVars, toolVars, role, procVars, applVars, archive, faults>>

\* UiCoveragePlugin.pytest_collection_finish: after the yield, install() on
\* every process but the master.
PytestCollectionFinish(p) ==
    /\ pc[p] = "collection"
    /\ Registered(p)
    /\ CallsManager(pc[p], role[p]) => ManagerBuilt(p)
    /\ IF CollectionFinishInstalls(role[p])
       THEN /\ pc' = [pc EXCEPT ![p] = "install_simplecov"]
            /\ calls' = Called(p, "install")
       ELSE /\ pc' = [pc EXCEPT ![p] = "runtest"]
            /\ UNCHANGED calls
    /\ UNCHANGED <<mergerVars, optVars, sideVars, toolVars, role, done, seen, exc, reported, ranTests, sent,
                   applVars, confFile, archive, faults>>

(***************************************************************************)
(* install().  Nothing in install() or the hook catches: an exception      *)
(* leaves pytest_collection_finish, pytest records an internal error, runs *)
(* no test and goes on to its session-finish hooks.                        *)
(***************************************************************************)
\* Variant: install() wrapped in a handler that swallows what is raised.
InstallPropagates_Swallowed(o) == FALSE
InstallPropagates(o) == o = "raise"
\* What install() does with the result of a payload step: it drops it.
InstallStopsOn(o) == FALSE

AfterInstallStep(p, o, next) ==
    IF InstallPropagates(o) \/ InstallStopsOn(o)
    THEN /\ pc' = [pc EXCEPT ![p] = "sessionfinish"]
         /\ exc' = [exc EXCEPT ![p] = "internal_error"]
    ELSE /\ pc' = [pc EXCEPT ![p] = next]
         /\ UNCHANGED exc

\* CoverageManager._install_simplecov: the gem file is put, the gem installed;
\* no result is looked at.
InstallSimplecov(p) ==
    /\ pc[p] = "install_simplecov"
    /\ \E o \in Outcomes :
          /\ MayEnd(o)
          /\ faults' = Count(o)
          /\ seen' = IF o = "ok" THEN seen ELSE Note(p, InstallMark(o))
          /\ AfterInstallStep(p, o, "install_hook")
    /\ UNCHANGED <<mergerVars, optVars, sideVars, toolVars, role, calls, done, reported, ranTests, sent,
                   applVars, confFile, archive>>

\* Variant: _install_coverage_hook without its look at the marker file.
MarkerFound_Never(a) == FALSE
\* _install_coverage_hook: [ -e lib/code_coverage.rb ] succeeds, the patch is
\* taken to be installed and the method returns True.
MarkerFound(a) == patched[a]

\* _install_coverage_hook: result = run_command('rpm -q patch'); if not
\* result.success the local yum repository is put and patch installed from it.
NeedsRepo(a) == ~MarkerFound(a) /\ ~patchTool[a]
\* The remote calls of _install_coverage_hook whose unsuccessful result "fail"
\* stands for: the patch command when the patch is needed (putting the hook
\* otherwise) and, when the repository is needed, also yum install and the rm
\* of the repository file.
FailPoints(a) == IF NeedsRepo(a) THEN {"patch", "yum", "rm"} ELSE {"patch"}
\* run_command('rm /etc/yum.repos.d/local.repo'): the file is gone if rm succeeded.
RepoAfterRm(rmOk) == ~rmOk

\* CoverageManager._install_coverage_hook: the appliance's coverage directory is
\* removed, the hook put in place, and the patch applied unless its marker file
\* is there; when the patch rpm is missing, the yum repository is put, patch
\* installed and the repository removed before the patch command runs.  No
\* result but that of the marker test and of rpm -q is looked at; the result
\* of the patch command is returned.  "patch_cmd" notes that the patch was
\* uploaded and the patch command run, "yum_repo" that the repository was put.
\* An exception may leave the method before or after the repository is put
\* and before it is removed.
InstallCoverageHook(p) ==
    LET a == current_appliance(p) IN
    /\ pc[p] = "install_hook"
    /\ \E o \in Outcomes, removed \in BOOLEAN, at \in FailPoints(a), left \in BOOLEAN :
          /\ MayEnd(o)
          /\ o # "raise" => removed
          /\ o # "fail" => at = "patch"
          /\ left => (o = "raise" /\ NeedsRepo(a) /\ removed)
          /\ faults' = Count(o)
          /\ seen' = [seen EXCEPT ![p] =
                         @ \cup (IF o = "ok" THEN {} ELSE {InstallMark(o)})
                           \cup (IF MarkerFound(a) \/ o = "raise" THEN {} ELSE {"patch_cmd"})
                           \cup (IF NeedsRepo(a) /\ (o # "raise" \/ left)
                                 THEN {"yum_repo"} ELSE {})]
          /\ covDir' = IF removed THEN [covDir EXCEPT ![a] = {}] ELSE covDir
          /\ hookFile' = IF o = "ok" \/ (o = "fail" /\ ~MarkerFound(a))
                         THEN [hookFile EXCEPT ![a] = TRUE] ELSE hookFile
          /\ patched' = IF o = "ok" \/ (o = "fail" /\ at = "rm")
                        THEN [patched EXCEPT ![a] = TRUE] ELSE patched
          /\ patchTool' = IF NeedsRepo(a) /\ o # "raise" /\ ~(o = "fail" /\ at = "yum")
                          THEN [patchTool EXCEPT ![a] = TRUE] ELSE patchTool
          /\ yumRepo' = IF left THEN [yumRepo EXCEPT ![a] = TRUE]
                        ELSE IF NeedsRepo(a) /\ o # "raise"
                        THEN [yumRepo EXCEPT ![a] = RepoAfterRm(~(o = "fail" /\ at = "rm"))]
                        ELSE yumRepo
          /\ AfterInstallStep(p, o, "install_restart")
    /\ UNCHANGED <<mergerVars, optVars, sideVars, role, calls, done, reported, ranTests, sent,
                   evm, tmpTar, confFile, archive>>

\* evmserverd after a restart: it loads the hook when hook and patch are there.
Started(a) == IF hookFile[a] /\ patched[a] THEN "instrumented" ELSE "plain"
\* Variant: the exit hook writes into one directory that all hosts share.
Flushed_SharedPath(a) == IF evm[a] = "instrumented" THEN covDir[a] \cup {1} ELSE covDir[a]
\* Stopping an instrumented evmserverd runs its exit hook, which writes the
\* host's raw results into its coverage directory, under the host's own name.
Flushed(a) == IF evm[a] = "instrumented" THEN covDir[a] \cup {a} ELSE covDir[a]

\* ipapp.restart_evm_service, which raises when the restart fails.
restart_evm_service(a, o) ==
    /\ evm' = [evm EXCEPT ![a] = IF o = "ok" THEN Started(a) ELSE "stopped"]
    /\ covDir' = [covDir EXCEPT ![a] = Flushed(a)]

\* install(): self.ipapp.restart_evm_service()
InstallRestart(p) ==
    /\ pc[p] = "install_restart"
    /\ \E o \in RaiseOutcomes :
          /\ MayEnd(o)
          /\ faults' = Count(o)
          /\ seen' = IF o = "ok" THEN seen ELSE Note(p, "restart_raise")
          /\ restart_evm_service(current_appliance(p), o)
          /\ AfterInstallStep(p, o, "install_wait")
    /\ UNCHANGED <<mergerVars, optVars, sideVars, toolVars, role, calls, done, reported, ranTests, sent,
                   hookFile, patched, tmpTar, confFile, archive>>

\* install(): self.ipapp.wait_for_web_ui(), after which install() returns.
InstallWait(p) ==
    /\ pc[p] = "install_wait"
    /\ \E o \in RaiseOutcomes :
          /\ MayEnd(o)
          /\ faults' = Count(o)
          /\ seen' = IF o = "ok" THEN seen ELSE Note(p, "health_raise")
          /\ done' = IF o = "ok" THEN [done EXCEPT ![p] = @ \cup {"install"}] ELSE done
          /\ AfterInstallStep(p, o, "runtest")
    /\ UNCHANGED <<mergerVars, optVars, sideVars, toolVars, role, calls, reported, ranTests, sent,
                   applVars, confFile, archive>>

\* The tests of the session: a slave or standalone process executes its tests,
\* the master waits in its test loop until its slaves have ended.
RunTests(p) ==
    /\ pc[p] = "runtest"
    /\ IF role[p] = "master"
       THEN WorkersFinished /\ UNCHANGED ranTests
       ELSE TestsHandedOut(p) /\ ranTests' = [ranTests EXCEPT ![p] = TRUE]
    /\ pc' = [pc EXCEPT ![p] = "sessionfinish"]
    /\ UNCHANGED <<mergerVars, optVars, sideVars, toolVars, role, calls, done, seen, exc, reported, sent,
                   applVars, confFile, archive, faults>>

(***************************************************************************)
(* Session finish: collect() on every process but the master, then, on     *)
(* the master or standalone process, merge().                              *)
(***************************************************************************)
\* pytest_sessionfinish after collect(): a slave returns, the others call merge().
AfterCollect(p, cs) ==
    IF SessionfinishReturnsEarly(role[p])
    THEN /\ pc' = [pc EXCEPT ![p] = "done"]
         /\ calls' = cs
    ELSE /\ pc' = [pc EXCEPT ![p] = "merge_tar"]
         /\ calls' = [cs EXCEPT ![p]["merge"] = @ + 1]

\* UiCoveragePlugin.pytest_sessionfinish
PytestSessionfinish(p) ==
    /\ pc[p] = "sessionfinish"
    /\ Registered(p)
    /\ CallsManager(pc[p], role[p]) => ManagerBuilt(p)
    /\ IF SessionfinishCollects(role[p])
       THEN /\ pc' = [pc EXCEPT ![p] = "collect_stop"]
            /\ calls' = Called(p, "collect")
       ELSE AfterCollect(p, calls)
    /\ UNCHANGED <<mergerVars, optVars, sideVars, toolVars, role, done, seen, exc, reported, ranTests, sent,
                   applVars, confFile, archive, faults>>

\* collect() and _collect_reports catch nothing: an exception of a remote call
\* leaves pytest_sessionfinish.
CollectPropagates(o) == o = "raise"

AfterCollectStep(p, o, next) ==
    IF CollectPropagates(o)
    THEN /\ pc' = [pc EXCEPT ![p] = "done"]
         /\ exc' = [exc EXCEPT ![p] = "crash"]
    ELSE /\ pc' = [pc EXCEPT ![p] = next]
         /\ UNCHANGED exc

\* _collect_reports: systemctl stop evmserverd, whose result is not looked at.
CollectStop(p) ==
    LET a == current_appliance(p) IN
    /\ pc[p] = "collect_stop"
    /\ \E o \in Outcomes :
          /\ MayEnd(o)
          /\ faults' = Count(o)
          /\ seen' = IF o = "ok" THEN seen
                     ELSE Note(p, IF o = "fail" THEN "stop_fail" ELSE "collect_raise")
          /\ covDir' = IF o = "ok" THEN [covDir EXCEPT ![a] = Flushed(a)] ELSE covDir
          /\ evm' = IF o = "ok" THEN [evm EXCEPT ![a] = "stopped"] ELSE evm
          /\ AfterCollectStep(p, o, "collect_send")
    /\ UNCHANGED <<mergerVars, optVars, sideVars, toolVars, role, calls, done, reported, ranTests, sent,
                   hookFile, patched, tmpTar, confFile, archive>>

\* run_command(..., timeout=1800) of the scp: what the caller gets when the
\* command runs into its timeout.  Variant: the timeout is raised.
TimeoutResult_Raises == "raise"
\* The timeout is handed back as an unsuccessful result.
TimeoutResult == "fail"
SendOutcomes == Outcomes \cup {"timeout"}
ResultOf(o) == IF o = "timeout" THEN TimeoutResult ELSE o
SendMark(o) ==
    CASE o = "ok" -> "send_ok"
      [] o = "fail" -> "send_fail"
      [] o = "raise" -> "send_raise"
      [] o = "timeout" -> "send_timeout"

\* _collect_reports: store.current_appliance != self.collection_appliance
NeedsSend(p) == current_appliance(p) # collection_appliance(p)
\* _collect_reports: if not result
SendFailed(o) == o = "fail"

\* _collect_reports: the scp of the host's coverage directory into that of the
\* collection appliance.  A slave reads the collection appliance from the conf,
\* which raises when the conf holds none.
CollectSend(p) ==
    LET a == current_appliance(p)
        ca == collection_appliance(p) IN
    /\ pc[p] = "collect_send"
    /\ \/ /\ ca = NoConf
          /\ seen' = Note(p, "conf_missing")
          /\ AfterCollectStep(p, "raise", "collect_restart")
          /\ UNCHANGED <<covDir, sent, reported, faults>>
       \/ /\ ca # NoConf
          /\ ~NeedsSend(p)
          /\ AfterCollectStep(p, "ok", "collect_restart")
          /\ UNCHANGED <<covDir, sent, reported, seen, faults>>
       \/ /\ ca # NoConf
          /\ NeedsSend(p)
          /\ \E o \in SendOutcomes :
                /\ MayEnd(o)
                /\ faults' = Count(o)
                /\ seen' = Note(p, SendMark(o))
                /\ covDir' = IF o = "ok"
                             THEN [covDir EXCEPT ![ca] = @ \cup covDir[a]] ELSE covDir
                /\ sent' = IF o = "ok" THEN [sent EXCEPT ![p] = covDir[a]] ELSE sent
                /\ reported' = IF SendFailed(ResultOf(o))
                               THEN [reported EXCEPT ![p] = @ \cup {"send_error"}]
                               ELSE reported
                /\ AfterCollectStep(p, ResultOf(o), "collect_restart")
    /\ UNCHANGED <<mergerVars, optVars, sideVars, toolVars, role, calls, done, ranTests,
                   evm, hookFile, patched, tmpTar, confFile, archive>>

\* collect(): self.ipapp.restart_evm_service(), after which collect() returns
\* into pytest_sessionfinish.
CollectRestart(p) ==
    /\ pc[p] = "collect_restart"
    /\ \E o \in RaiseOutcomes :
          /\ MayEnd(o)
          /\ faults' = Count(o)
          /\ seen' = IF o = "ok" THEN seen ELSE Note(p, "collect_raise")
          /\ restart_evm_service(current_appliance(p), o)
          /\ IF CollectPropagates(o)
             THEN /\ pc' = [pc EXCEPT ![p] = "done"]
                  /\ exc' = [exc EXCEPT ![p] = "crash"]
                  /\ UNCHANGED <<done, calls>>
             ELSE /\ done' = [done EXCEPT ![p] = @ \cup {"collect"}]
                  /\ AfterCollect(p, calls)
                  /\ UNCHANGED exc
    /\ UNCHANGED <<mergerVars, optVars, sideVars, toolVars, role, reported, ranTests, sent,
                   hookFile, patched, tmpTar, confFile, archive>>

\* Variant: merge() without its try/except.
MergeCatches_Nothing(o) == FALSE
\* merge(): except Exception catches whatever _retrieve_coverage_reports raises.
MergeCatches(o) == o = "raise"

\* merge(): the except branch logs, reports the failure and returns.
AfterMergeStep(p, o, next) ==
    IF o = "raise"
    THEN /\ pc' = [pc EXCEPT ![p] = "done"]
         /\ IF MergeCatches(o)
            THEN /\ reported' = [reported EXCEPT ![p] = @ \cup {"merge_failed"}]
                 /\ UNCHANGED exc
            ELSE /\ exc' = [exc EXCEPT ![p] = "crash"]
                 /\ UNCHANGED reported
    ELSE /\ pc' = [pc EXCEPT ![p] = next]
         /\ UNCHANGED <<exc, reported>>

\* The tar command of _retrieve_coverage_reports: the archive holds what the
\* coverage directory holds, and the directory is left as it is.
TarOf(dir) == dir
\* Variant: tar --remove-files.
DirAfterTar_Removed(dir) == {}
DirAfterTar(dir) == dir

\* _retrieve_coverage_reports: tar czf /tmp/ui-coverage-raw.tgz coverage/ on the
\* collection appliance; the result is not looked at.
MergeTar(p) ==
    LET ca == collection_appliance(p) IN
    /\ pc[p] = "merge_tar"
    /\ \/ /\ ca = NoConf
          /\ seen' = Note(p, "conf_missing")
          /\ AfterMergeStep(p, "raise", "merge_get")
          /\ UNCHANGED <<tmpTar, covDir, faults>>
       \/ /\ ca # NoConf
          /\ \E o \in Outcomes :
                /\ MayEnd(o)
                /\ faults' = Count(o)
                /\ seen' = IF o = "ok" THEN seen
                           ELSE Note(p, IF o = "fail" THEN "tar_fail" ELSE "merge_raise")
                /\ tmpTar' = IF o = "ok"
                             THEN [tmpTar EXCEPT ![ca] = TarOf(covDir[ca])] ELSE tmpTar
                /\ covDir' = IF o = "ok"
                             THEN [covDir EXCEPT ![ca] = DirAfterTar(@)] ELSE covDir
                /\ AfterMergeStep(p, o, "merge_get")
    /\ UNCHANGED <<mergerVars, optVars, sideVars, toolVars, role, calls, done, ranTests, sent,
                   evm, hookFile, patched, confFile, archive>>

\* _retrieve_coverage_reports: get_file of the tar into coverage-results.tgz,
\* after which merge() returns.  There is nothing to get when no tar was made.
MergeGet(p) ==
    LET ca == collection_appliance(p) IN
    /\ pc[p] = "merge_get"
    /\ \E o \in Outcomes :
          /\ MayEnd(o) \/ tmpTar[ca] = NoTar
          /\ o = "ok" => tmpTar[ca] # NoTar
          /\ faults' = IF tmpTar[ca] = NoTar THEN faults ELSE Count(o)
          /\ seen' = IF o = "ok" THEN Note(p, "get_ok")
                     ELSE Note(p, IF o = "fail" THEN "get_fail" ELSE "merge_raise")
          /\ archive' = IF o = "ok" THEN tmpTar[ca] ELSE archive
          /\ done' = IF o = "raise" THEN done ELSE [done EXCEPT ![p] = @ \cup {"merge"}]
          /\ AfterMergeStep(p, o, "done")
    /\ UNCHANGED <<mergerVars, optVars, sideVars, toolVars, role, calls, ranTests, sent, applVars, confFile>>

Next ==
    \E p \in Procs :
        \/ Spawn(p)
        \/ PytestCmdlineMain(p)
        \/ PytestConfigure(p)
        \/ PytestSessionstart(p)
        \/ PytestCollectionFinish(p)
        \/ InstallSimplecov(p)
        \/ InstallCoverageHook(p)
        \/ InstallRestart(p)
        \/ InstallWait(p)
        \/ RunTests(p)
        \/ PytestSessionfinish(p)
        \/ CollectStop(p)
        \/ CollectSend(p)
        \/ CollectRestart(p)
        \/ MergeTar(p)
        \/ MergeGet(p)

Spec == Init /\ [][Next]_vars
SpecLarge == InitLarge /\ [][Next]_vars

\* The runs started with or without --ui-coverage.
NextOption ==
    \/ Next
    \/ \E p \in Procs : HookNotCalled(p)

SpecOption == InitOption /\ [][NextOption]_vars

\* The runs on appliances of any version.
NextVersion ==
    \/ Next
    \/ \E p \in Procs : ManagerRaises(p)

SpecVersion == InitVersion /\ [][NextVersion]_vars

\* The runs in which install() has to obtain the patch tool.
SpecTool == InitTool /\ [][Next]_vars

(***************************************************************************)
(* The report merger.  merge() leaves its call commented out and the       *)
(* merger script is not part of the sources at hand: it is modelled as it  *)
(* is specified.  A result set maps a file to its per-line hit counts,     *)
(* Null for a line that is not executable.                                 *)
(***************************************************************************)
Null == -1
Files == {"a.rb"}
Counts == {Null} \cup 0..MaxCount
LineSeqs == UNION {[1..n -> Counts] : n \in 1..MaxLines}
RawResultSets == UNION {[D -> LineSeqs] : D \in SUBSET Files}

\* Variant: a line that is null in one of the sets is null in the result.
MergeLine_NullWins(x, y) == IF x = Null \/ y = Null THEN Null ELSE x + y
\* One line of one file: null when both are null, else the sum of the non-null.
MergeLine(x, y) ==
    IF x = Null /\ y = Null THEN Null
    ELSE (IF x = Null THEN 0 ELSE x) + (IF y = Null THEN 0 ELSE y)

MergeFile(s, t) == [i \in 1..Len(s) |-> MergeLine(s[i], t[i])]

\* The sets that hold file f, and whether their line counts of f disagree.
Contributors(sets, f) == {i \in 1..Len(sets) : f \in DOMAIN sets[i]}
MismatchedFileShape(sets, f) ==
    \E i, j \in Contributors(sets, f) : Len(sets[i][f]) # Len(sets[j][f])
\* The files of the sets given to the merger.
FilesOf(sets) == UNION {DOMAIN sets[i] : i \in 1..Len(sets)}
\* Variant: the mismatch is not recorded.
MismatchedFiles_None(sets) == {}
MismatchedFiles(sets) ==
    {f \in FilesOf(sets) : MismatchedFileShape(sets, f)}

RECURSIVE SumFile(_, _, _)
SumFile(sets, f, is) ==
    LET i == CHOOSE k \in is : \A m \in is : k <= m IN
    IF is = {i} THEN sets[i][f]
    ELSE MergeFile(sets[i][f], SumFile(sets, f, is \ {i}))

\* The merger on N result sets: a file of K of them gets the per-line sums of
\* the K; a file whose line counts disagree is left out of the result.
\* Variant: only the files that two or more of the sets hold are merged.
MergeResultSets_SharedOnly(sets) ==
    [f \in {g \in FilesOf(sets) : Cardinality(Contributors(sets, g)) >= 2
                                    /\ ~MismatchedFileShape(sets, g)}
        |-> SumFile(sets, f, Contributors(sets, f))]
MergeResultSets(sets) ==
    [f \in {g \in FilesOf(sets) : ~MismatchedFileShape(sets, g)}
        |-> SumFile(sets, f, Contributors(sets, f))]

\* The pool without its i-th and j-th set.
Rest(i, j) ==
    LET lo == IF i < j THEN i ELSE j
        hi == IF i < j THEN j ELSE i
    IN SubSeq(pool, 1, lo - 1) \o SubSeq(pool, lo + 1, hi - 1) \o SubSeq(pool, hi + 1, Len(pool))

\* A merger run on two of the result sets at hand (a partial merge, or a merge
\* re-run with one more set): the two are replaced by their merge.
MergeTwo(i, j) ==
    /\ i # j
    /\ pool' = Append(Rest(i, j), MergeResultSets(<<pool[i], pool[j]>>))
    /\ flagged' = flagged \cup MismatchedFiles(<<pool[i], pool[j]>>)
    /\ UNCHANGED <<raw, optVars, sideVars, toolVars, role, pc, procVars, applVars, confFile, archive, faults>>

\* A merger run on all the raw result sets at once.
MergeAtOnce ==
    /\ pool = raw
    /\ Len(pool) >= 1
    /\ pool' = <<MergeResultSets(raw)>>
    /\ flagged' = flagged \cup MismatchedFiles(raw)
    /\ UNCHANGED <<raw, optVars, sideVars, toolVars, role, pc, procVars, applVars, confFile, archive, faults>>

\* No process of a run is there.
NoRun ==
    /\ role = [p \in Procs |-> "none"]
    /\ pc = [p \in Procs |-> "absent"]
    /\ calls = [p \in Procs |-> [install |-> 0, collect |-> 0, merge |-> 0, clean |-> 0]]
    /\ done = [p \in Procs |-> {}]
    /\ seen = [p \in Procs |-> {}]
    /\ exc = [p \in Procs |-> "none"]
    /\ reported = [p \in Procs |-> {}]
    /\ ranTests = [p \in Procs |-> FALSE]
    /\ sent = [p \in Procs |-> {}]
    /\ covDir = [a \in Appliances |-> {}]
    /\ evm = [a \in Appliances |-> "plain"]
    /\ hookFile = [a \in Appliances |-> FALSE]
    /\ patched = [a \in Appliances |-> FALSE]
    /\ tmpTar = [a \in Appliances |-> NoTar]
    /\ confFile = NoConf
    /\ archive = NoArchive
    /\ faults = 0
    /\ ui_coverage = FALSE
    /\ registered = [p \in Procs |-> 0]
    /\ AllSupported
    /\ AllTooled

\* The merger is given its raw result sets.
InitMerge ==
    /\ raw \in [1..MaxSets -> RawResultSets]
    /\ pool = raw
    /\ flagged = {}
    /\ NoRun
    /\ NoAttrCall
    /\ NoPolicyCall

\* Inputs with a second file and larger counts: the sum of two sets, a file
\* whose line counts disagree next to one whose line counts agree, and two
\* sets with no file in common.
SumInputs == <<[f \in {"a.rb"} |-> <<1, Null, 3>>], [f \in {"a.rb"} |-> <<2, Null, 0>>]>>
MismatchInputs ==
    <<[f \in {"a.rb", "b.rb"} |-> IF f = "a.rb" THEN <<1, 2>> ELSE <<1, Null>>],
      [f \in {"a.rb", "b.rb"} |-> IF f = "a.rb" THEN <<1, 2, 3>> ELSE <<2, Null>>]>>
DisjointInputs == <<[f \in {"a.rb"} |-> <<1, Null>>], [f \in {"b.rb"} |-> <<0>>]>>

\* The merger is given one raw result set or several, fewer than MaxSets.
InitMergeRule ==
    /\ \/ \E n \in 1..(MaxSets - 1) : raw \in [1..n -> RawResultSets]
       \/ raw \in {SumInputs, MismatchInputs, DisjointInputs}
    /\ pool = raw
    /\ flagged = {}
    /\ NoRun
    /\ NoAttrCall
    /\ NoPolicyCall

NextMerge ==
    \/ \E i, j \in 1..Len(pool) : MergeTwo(i, j)
    \/ MergeAtOnce

SpecMerge == InitMerge /\ [][NextMerge]_vars
\* One run of the merger on all it is given.
SpecMergeRule == InitMergeRule /\ [][MergeAtOnce]_vars

(***************************************************************************)
(* OpenshiftProvider's custom attributes (cfme/containers/provider/        *)
(* openshift.py).  An argument of a call is a CustomAttribute, a str or    *)
(* an object of another type; a value is an int or a str, and str(value)   *)
(* is the str with the same digits.  The REST API holds the provider's     *)
(* attributes, each under an href of its own.                              *)
(***************************************************************************)
AttrNames == {"color", "size"}
AttrValues == {<<"int", 1>>, <<"str", 1>>}
FieldTypes == {"", "Date"}
NoValue == <<"none", 0>>
Str(v) == <<"str", v[2]>>

\* CustomAttribute(name, value, field_type), a str, an object of another type.
CustomAttribute(n, v, t) ==
    [kind |-> "CustomAttribute", name |-> n, value |-> v, field_type |-> t]
StrArg(n) == [kind |-> "str", name |-> n, value |-> NoValue, field_type |-> ""]
OtherArg == [kind |-> "other", name |-> "", value |-> NoValue, field_type |-> ""]
ArgValues ==
    {CustomAttribute(n, v, t) : n \in AttrNames, v \in AttrValues, t \in FieldTypes}
        \cup {StrArg(n) : n \in AttrNames} \cup {OtherArg}
ArgTuples == UNION {[1..k -> ArgValues] : k \in 0..MaxArgs}

\* What the REST API holds before the call: up to MaxAttrs attributes, two
\* of which may have the same name.
StoredAttributes ==
    UNION {{[i \in 1..k |-> [name |-> f[i], value |-> Str(<<"int", 1>>), href |-> i]] :
                f \in [1..k -> AttrNames]} : k \in 0..MaxAttrs}

\* isinstance(attr, CustomAttribute), and the test of delete_custom_attributes,
\* type(attr) in (str, CustomAttribute).
IsCustomAttribute(x) == x.kind = "CustomAttribute"
IsNameOrAttribute(x) == x.kind \in {"str", "CustomAttribute"}

\* The check add_custom_attributes and edit_custom_attributes start with: at
\* least one argument, every one a CustomAttribute.
ArgsValid_NonEmpty(args) == args # <<>>
ArgsValid(args) == args # <<>> /\ \A i \in DOMAIN args : IsCustomAttribute(args[i])

\* custom_attributes(): one GET of the collection, one GET per attribute.
GetsOf(as) == 1 + Len(as)

\* The last attribute named n of the list read, filter(...)[-1].
Matches(as, n) == {i \in DOMAIN as : as[i].name = n}
LastMatch(as, n) == as[CHOOSE i \in Matches(as, n) : \A j \in Matches(as, n) : j <= i]

\* What the REST API does with a payload.
RECURSIVE ServerEdit(_, _)
ServerEdit(as, res) ==
    IF res = <<>> THEN as
    ELSE ServerEdit([i \in DOMAIN as |->
                        IF as[i].href = Head(res).href
                        THEN [as[i] EXCEPT !.value = Head(res).value] ELSE as[i]],
                    Tail(res))
ServerAdd(as, res) ==
    as \o [i \in DOMAIN res |->
              [name |-> res[i].name, value |-> res[i].value, href |-> Len(as) + i]]
ServerDelete(as, res) ==
    LET gone(x) == \E i \in DOMAIN res : res[i].href = x.href
        keep(x) == ~gone(x)
    IN  SelectSeq(as, keep)

Raise(op, args, e, gets) ==
    [NoCall EXCEPT !.op = op, !.args = args, !.raised = e, !.gets = gets,
                   !.before = attribs]
Post(op, args, gets, res) ==
    [NoCall EXCEPT !.op = op, !.args = args, !.gets = gets, !.posted = TRUE,
                   !.action = op, !.resources = res, !.before = attribs]

runVars == <<role, pc, procVars, applVars, confFile, archive, faults,
             mergerVars, optVars, toolVars>>

\* add_custom_attributes(*custom_attributes)
AddCustomAttributes(args) ==
    /\ call.op = "none"
    /\ IF ~ArgsValid(args)
       THEN /\ call' = Raise("add", args, "TypeError", 0)
            /\ attribs' = attribs
       ELSE LET res == [i \in DOMAIN args |->
                           [name |-> args[i].name, value |-> Str(args[i].value),
                            field_type |-> args[i].field_type]]
            IN  /\ call' = Post("add", args, 0, res)
                /\ attribs' = ServerAdd(attribs, res)
    /\ UNCHANGED <<runVars, policyVars>>

\* edit_custom_attributes(*custom_attributes)
EditCustomAttributes(args) ==
    /\ call.op = "none"
    /\ IF ~ArgsValid(args)
       THEN /\ call' = Raise("edit", args, "TypeError", 0)
            /\ attribs' = attribs
       ELSE IF \E i \in DOMAIN args : Matches(attribs, args[i].name) = {}
       THEN /\ call' = Raise("edit", args, "IndexError", GetsOf(attribs))
            /\ attribs' = attribs
       ELSE LET res == [i \in DOMAIN args |->
                           [href |-> LastMatch(attribs, args[i].name).href,
                            value |-> args[i].value]]
            IN  /\ call' = Post("edit", args, GetsOf(attribs), res)
                /\ attribs' = ServerEdit(attribs, res)
    /\ UNCHANGED <<runVars, policyVars>>

\* The names delete_custom_attributes deletes: the given ones, and all the
\* names there are when none is given.
NamesToDelete_Given(as, args) == {args[i].name : i \in DOMAIN args}
NamesToDelete(as, args) ==
    LET names == [i \in DOMAIN args |-> args[i].name]
    IN  IF names = <<>> THEN {as[i].name : i \in DOMAIN as}
        ELSE {names[i] : i \in DOMAIN names}

\* delete_custom_attributes(*custom_attributes)
DeleteCustomAttributes(args) ==
    /\ call.op = "none"
    /\ IF \E i \in DOMAIN args : ~IsNameOrAttribute(args[i])
       THEN /\ call' = Raise("delete", args, "TypeError", 0)
            /\ attribs' = attribs
       ELSE LET named(x) == x.name \in NamesToDelete(attribs, args)
                hit == SelectSeq(attribs, named)
                res == [i \in DOMAIN hit |-> [href |-> hit[i].href]]
            IN  /\ call' = Post("delete", args, GetsOf(attribs), res)
                /\ attribs' = ServerDelete(attribs, res)
    /\ UNCHANGED <<runVars, policyVars>>

\* A provider with some custom attributes, and one call of one of the methods.
InitAttributes ==
    /\ NoRun
    /\ raw = <<>>
    /\ pool = <<>>
    /\ flagged = {}
    /\ NoPolicyCall
    /\ attribs \in StoredAttributes
    /\ call = NoCall

NextAttributes ==
    \/ \E args \in ArgTuples : AddCustomAttributes(args)
    \/ \E args \in ArgTuples : EditCustomAttributes(args)
    \/ \E args \in ArgTuples : DeleteCustomAttributes(args)

SpecAttributes == InitAttributes /\ [][NextAttributes]_vars

(***************************************************************************)
(* PolicyProfileAssignable (cfme/common/__init__.py).  The object keeps    *)
(* the set of the profile names assigned through it; the UI part of a      *)
(* call, _assign_unassign_policy_profiles, checks or unchecks the names    *)
(* in the Manage Policies tree and saves, and may raise anywhere.          *)
(***************************************************************************)
NameTuples == UNION {[1..k -> Profiles] : k \in 0..MaxArgs}
NamesOf(names) == {names[i] : i \in DOMAIN names}

\* The property assigned_policy_profiles: the set, made empty on first use.
assigned_policy_profiles == IF assigned = Unset THEN {} ELSE assigned

\* The set after the call: the methods change it first and call the UI after,
\* so the outcome of the UI has no part in it.
SetAfterCall_WhenSaved(cur, new, uiOk) == IF uiOk THEN new ELSE cur
SetAfterCall(cur, new, uiOk) == new

\* set.remove(pp_name) inside try/except KeyError, for each name in turn.
RECURSIVE RemoveEach(_, _)
RemoveEach(set, names) ==
    IF names = <<>> THEN set
    ELSE RemoveEach(IF Head(names) \in set THEN set \ {Head(names)} ELSE set, Tail(names))

\* _assign_unassign_policy_profiles(assign, *names): the tree as saved when
\* the call gets as far as a successful save.
TreeAfter(assign, names) ==
    IF assign THEN checked \cup NamesOf(names) ELSE checked \ NamesOf(names)
Named(op, names) ==
    [n \in Profiles |-> IF n \in NamesOf(names) THEN op ELSE lastOp[n]]

\* assign_policy_profiles(*policy_profile_names)
AssignPolicyProfiles(names) ==
    \E uiOk \in BOOLEAN :
        /\ assigned' = SetAfterCall(assigned, assigned_policy_profiles \cup NamesOf(names), uiOk)
        /\ checked' = IF uiOk THEN TreeAfter(TRUE, names) ELSE checked
        /\ lastOp' = Named("assign", names)
        /\ policyCall' = [op |-> "assign", names |-> NamesOf(names),
                          raised |-> IF uiOk THEN "none" ELSE "UIError"]
        /\ UNCHANGED <<runVars, attrVars>>

\* unassign_policy_profiles(*policy_profile_names)
UnassignPolicyProfiles(names) ==
    \E uiOk \in BOOLEAN :
        /\ assigned' = IF names = <<>> THEN assigned
                       ELSE SetAfterCall(assigned,
                                         RemoveEach(assigned_policy_profiles, names), uiOk)
        /\ checked' = IF uiOk THEN TreeAfter(FALSE, names) ELSE checked
        /\ lastOp' = Named("unassign", names)
        /\ policyCall' = [op |-> "unassign", names |-> NamesOf(names),
                          raised |-> IF uiOk THEN "none" ELSE "UIError"]
        /\ UNCHANGED <<runVars, attrVars>>

\* An object none of whose policy-profile methods was called yet.
InitPolicy ==
    /\ NoRun
    /\ raw = <<>>
    /\ pool = <<>>
    /\ flagged = {}
    /\ NoAttrCall
    /\ NoPolicyCall

NextPolicy ==
    \/ \E names \in NameTuples : AssignPolicyProfiles(names)
    \/ \E names \in NameTuples : UnassignPolicyProfiles(names)

SpecPolicy == InitPolicy /\ [][NextPolicy]_vars

(***************************************************************************)
(* RunPhaseState of a process's coverage manager, read off what its        *)
(* methods have done: a method that returned normally has completed its    *)
(* phase, a method under way is in its -ing phase.                         *)
(***************************************************************************)
Phase(p) ==
    IF "merge" \in done[p] THEN "merged"
    ELSE IF pc[p] \in MergeSteps THEN "merging"
    ELSE IF "collect" \in done[p] THEN "collected"
    ELSE IF pc[p] \in CollectSteps THEN "collecting"
    ELSE IF "install" \in done[p] THEN "installed"
    ELSE "uninstalled"

PhaseRank(p) ==
    CASE Phase(p) = "uninstalled" -> 0
      [] Phase(p) = "installed" -> 1
      [] Phase(p) = "collecting" -> 2
      [] Phase(p) = "collected" -> 3
      [] Phase(p) = "merging" -> 4
      [] Phase(p) = "merged" -> 5

AllDone == \A p \in Participants : pc[p] = "done"
InstallFailed(p) == seen[p] \cap {"restart_raise", "health_raise"} # {}

(***************************************************************************)
(* Phase order.                                                            *)
(***************************************************************************)
\* C1 as stated, already for the runs in which no remote call fails and the
\* processes on which nothing is raised: the phase only moves forward through
\* uninstalled, installed, collecting, collected, merging, merged: no step
\* moves it back and no step enters a phase whose predecessor was not reached.
C1_PhaseOrder ==
    [][faults' = 0 =>
         \A p \in Procs : exc[p]' = "none" =>
            /\ PhaseRank(p)' >= PhaseRank(p)
            /\ Phase(p)' \in {"collecting", "collected"} => "install" \in done[p]'
            /\ Phase(p)' \in {"merging", "merged"} => "collect" \in done[p]']_vars

\* C1, amended: on every process completed phases are never undone and
\* install(), collect(), merge() are invoked at most once each; collect() is
\* invoked only after install() was invoked and, on a standalone process,
\* merge() only after collect() returned.  But a phase can be entered without
\* its predecessor: the master merges on a manager that never installed or
\* collected, and collect() also runs after an install() that raised.
C1_PhaseForward ==
    /\ [](\A p \in Procs :
            /\ \A m \in {"install", "collect", "merge"} : calls[p][m] <= 1
            /\ calls[p]["collect"] = 1 => calls[p]["install"] = 1
            /\ (role[p] = "standalone" /\ calls[p]["merge"] = 1) => "collect" \in done[p])
    /\ [][\A p \in Procs : done[p] \subseteq done[p]']_vars

C1_Witness ==
    /\ role[Master] = "master"
    /\ Phase(Master) = "merging"
    /\ calls[Master]["install"] = 0
    /\ calls[Master]["collect"] = 0
    /\ \E w \in SlaveProcs : Phase(w) = "collected" /\ "install" \in done[w]

\* C2 as stated: merge() on a manager on which no collect() has occurred is
\* rejected, so it never gets to retrieve the archive and never completes.
C2_MergeRejected ==
    \A p \in Procs :
        "collect" \notin done[p] => pc[p] # "merge_get" /\ "merge" \notin done[p]

\* C2, amended: merge() has no guard of its own.  A standalone process invokes
\* it only after its collect() returned normally; the master of a distributed
\* run invokes it, and it retrieves the archive, although collect() never ran
\* on the master's manager.
C2_MergeOrderedByHook ==
    \A p \in Procs :
        (calls[p]["merge"] > 0) =>
            \/ role[p] = "standalone" /\ "collect" \in done[p]
            \/ role[p] = "master" /\ calls[p]["collect"] = 0

C2_Witness ==
    /\ role[Master] = "master"
    /\ "get_ok" \in seen[Master]
    /\ "merge" \in done[Master]
    /\ calls[Master]["collect"] = 0
    /\ archive # NoArchive

C4_InstallResultFatal ==
    \A p \in Procs :
        "install_fail" \in seen[p] => "install" \notin done[p] /\ ~ranTests[p]

(***************************************************************************)
(* Failures of collect() and merge().                                      *)
(***************************************************************************)
\* C5 as stated: when the transfer of slave H fails (an unsuccessful result of
\* its scp), collect() still completes on H, and the archive that merge() later
\* retrieves holds nothing of H and holds what every slave whose transfer
\* succeeded has sent.
C5_FailedTransferOmitsOnlyH ==
    \A h \in SlaveProcs :
        "send_fail" \in seen[h] =>
            /\ (pc[h] = "done" /\ "collect_raise" \notin seen[h]) => "collect" \in done[h]
            /\ "get_ok" \in seen[Master] =>
                  /\ current_appliance(h) \notin archive
                  /\ \A w \in SlaveProcs : "send_ok" \in seen[w] => sent[w] \subseteq archive

\* C6: an exception raised while merge() retrieves the archives is caught in
\* merge(): merge() has returned, the failure message was reported, and the
\* exception did not leave the session-finish hook.
C6_MergeErrorsCaught ==
    \A p \in Procs :
        "merge_raise" \in seen[p] =>
            /\ pc[p] = "done"
            /\ "merge_failed" \in reported[p]
            /\ exc[p] # "crash"

C6_Witness ==
    \E p \in Procs :
        /\ "merge_raise" \in seen[p]
        /\ pc[p] = "done"
        /\ "merge_failed" \in reported[p]

\* C7 as stated: once install() has returned normally on a process, no failure
\* of the coverage calls leaves its session-finish hook.
C7_NoFailureAfterInstall ==
    \A p \in Procs : "install" \in done[p] => exc[p] # "crash"

C9_MergeExactlyOnce ==
    /\ \A p \in Procs : role[p] = "slave" => calls[p]["merge"] = 0
    /\ calls[Master]["merge"] <= 1
    /\ AllDone => calls[Master]["merge"] = 1

\* C10: the master's merge() is invoked only when every slave of the run has
\* invoked its collect() and has ended.
C10_MergeAfterAllCollects ==
    (role[Master] = "master" /\ calls[Master]["merge"] > 0) =>
        \A w \in SlaveProcs : calls[w]["collect"] = 1 /\ pc[w] = "done"

C10_Witness ==
    /\ role[Master] = "master"
    /\ pc[Master] = "merge_get"
    /\ Cardinality(SlaveProcs) >= 2
    /\ \E w \in SlaveProcs : "collect" \in done[w]
    /\ \E w \in SlaveProcs : exc[w] = "crash"

(***************************************************************************)
(* The hooks: what they call, on which process, and when.                  *)
(***************************************************************************)
BeforeTests == {"absent", "unborn", "cmdline", "configure", "sessionstart", "collection"}
               \cup InstallSteps \cup {"runtest"}

\* C11: a process executes tests on its host only after its install() has
\* returned, that is after the restart and the wait for the web UI, and with
\* the service of the host started; its collect() is invoked only when its
\* test execution is over, and no test is executed after that.
C11_InstallTestsCollect ==
    \A p \in Procs :
        /\ ranTests[p] => "install" \in done[p]
        /\ (pc[p] = "runtest" /\ "install" \in done[p])
              => evm[current_appliance(p)] # "stopped"
        /\ "install" \in done[p] => pc[p] \notin (BeforeTests \ {"runtest"})
        /\ calls[p]["collect"] > 0 => pc[p] \notin BeforeTests

C11_Witness ==
    \E p, q \in SlaveProcs :
        /\ p # q
        /\ ranTests[p] /\ "install" \in done[p] /\ pc[p] = "collect_stop"
        /\ pc[q] = "runtest" /\ "install" \in done[q] /\ ~ranTests[q]
        /\ evm[current_appliance(q)] = "instrumented"

(***************************************************************************)
(* The conf of the collection appliance and the output directory.          *)
(***************************************************************************)
\* The leader has persisted its choice: pytest_sessionstart of the master is over.
LeaderWrote ==
    role[Master] = "master" /\ pc[Master] \notin {"cmdline", "configure", "sessionstart"}

\* C12 as stated: once the leader has persisted its choice, every worker that
\* resolves the collection appliance (to compare it with its own appliance and
\* to send to it) resolves the appliance the leader chose, which is the one the
\* leader itself uses.
C12_SameCollectionAppliance ==
    \A w \in SlaveProcs :
        (LeaderWrote /\ pc[w] = "collect_send") =>
            collection_appliance(w) = collection_appliance(Master)

\* C13 as stated: the conf value is written by the leader's session start only,
\* no step changes it once the leader has written it, and no session-configure
\* step of a worker changes it.
C13_ConfWrittenOnce ==
    [][/\ (confFile' # confFile /\ confFile' # NoConf) =>
             (role[Master] = "master" /\ pc[Master] = "sessionstart"
                 /\ pc[Master]' = "collection")
       /\ LeaderWrote => confFile' = confFile
       /\ \A w \in SlaveProcs :
             (pc[w] = "configure" /\ pc[w]' # pc[w]) => confFile' = confFile]_vars

\* C14: the output directory is reset by the session-configure of the master or
\* standalone process, once, and by no worker: a worker never resets it, and no
\* step of a worker changes what the directory holds.
C14_OnlyLeaderResets ==
    /\ [](\A p \in Procs :
            /\ role[p] = "slave" => calls[p]["clean"] = 0
            /\ role[p] \in {"master", "standalone"} =>
                  calls[p]["clean"] = IF pc[p] \in {"cmdline", "configure"} THEN 0 ELSE 1)
    /\ [][\A w \in SlaveProcs : pc[w]' # pc[w] => archive' = archive]_vars

C14_Witness ==
    /\ role[Master] = "master"
    /\ calls[Master]["clean"] = 1
    /\ "get_ok" \in seen[Master]
    /\ archive \notin {NoArchive, StaleArchive}
    /\ Cardinality(SlaveProcs) >= 2
    /\ \A w \in SlaveProcs : pc[w] = "done" /\ calls[w]["clean"] = 0

BeforeInstall == {"absent", "unborn", "cmdline", "configure", "sessionstart", "collection"}
AfterSessionfinish == CollectSteps \cup MergeSteps \cup {"done"}

Transferred(p) == seen[p] \cap {SendMark(o) : o \in SendOutcomes} # {}
\* The appliance the run designates: the one the master or standalone process uses.
DesignatedAppliance == current_appliance(Master)

\* C17 as stated, already for the runs in which no remote call fails: when the
\* transfer of a host's raw results is about to begin or was issued, the
\* service of the host has been stopped, and once collect() is past its transfer
\* step the transfer was issued if and only if the host is not the designated
\* collection appliance.
C17_StopThenTransfer ==
    faults = 0 =>
        \A p \in Procs : role[p] \in {"slave", "standalone"} =>
            /\ pc[p] = "collect_send" => evm[current_appliance(p)] = "stopped"
            /\ Transferred(p) => current_appliance(p) # DesignatedAppliance
            /\ (calls[p]["collect"] = 1 /\ pc[p] \notin {"collect_stop", "collect_send"}) =>
                  (Transferred(p) <=> current_appliance(p) # DesignatedAppliance)

\* C18 as stated: when install() is about to restart the service or has done
\* so, the hook is in place on the host; and the installed state is reached
\* only with the hook in place, the patch verified or applied, and the service
\* restarted.
C18_InstalledAfterSteps ==
    \A p \in Procs :
        LET a == current_appliance(p) IN
        /\ pc[p] \in {"install_restart", "install_wait"} => hookFile[a]
        /\ "install" \in done[p] => (hookFile[a] /\ patched[a])
        /\ (pc[p] = "runtest" /\ "install" \in done[p]) => evm[a] = "instrumented"

\* C19: when the marker file exists on the host, the hook step of install()
\* uploads no patch and runs no patch command and leaves the marker as it is;
\* the marker is never removed, so a host is patched at most once.
C19_PatchIdempotent ==
    /\ [][\A p \in Procs :
            (pc[p] = "install_hook" /\ pc[p]' # pc[p] /\ patched[current_appliance(p)]) =>
                ("patch_cmd" \notin seen[p]' /\ patched' = patched)]_vars
    /\ [][\A a \in Appliances : patched[a] => patched[a]']_vars
    /\ [](\A p \in Procs : "patch_cmd" \in seen[p] => pc[p] \notin BeforeInstall)

C19_Witness ==
    \E p \in Procs :
        /\ pc[p] = "install_restart"
        /\ patched[current_appliance(p)] /\ hookFile[current_appliance(p)]
        /\ seen[p] = {}

(***************************************************************************)
(* The algebra of the report merger.                                       *)
(***************************************************************************)
\* C20 as stated: in whatever order and grouping the raw result sets are
\* merged, and also when a merge is re-run with more sets, the one result set
\* left at the end is the result of merging all raw sets at once.
C20_MergeOrderFree ==
    Len(pool) = 1 => pool[1] = MergeResultSets(raw)

\* The sum of the non-null hit counts of line i of file f over the raw sets ks.
RECURSIVE HitSum(_, _, _)
HitSum(f, i, ks) ==
    IF ks = {} THEN 0
    ELSE LET k == CHOOSE x \in ks : TRUE
             v == raw[k][f][i]
         IN (IF v = Null THEN 0 ELSE v) + HitSum(f, i, ks \ {k})

\* What the merge rule asks of line i of file f of the raw sets.
Expected(f, i) ==
    IF \A k \in Contributors(raw, f) : raw[k][f][i] = Null THEN Null
    ELSE HitSum(f, i, Contributors(raw, f))

\* C21: when the raw sets are merged into one result set, every file whose
\* line counts agree in the K sets that hold it is in the result, with as many
\* lines, and its value at line i is null if the K values at i are all null
\* and the sum of the non-null ones otherwise.
C21_MergeRule ==
    Len(pool) = 1 =>
        \A f \in FilesOf(raw) :
            ~MismatchedFileShape(raw, f) =>
                /\ f \in DOMAIN pool[1]
                /\ \A k \in Contributors(raw, f) :
                      /\ Len(pool[1][f]) = Len(raw[k][f])
                      /\ \A i \in 1..Len(raw[k][f]) : pool[1][f][i] = Expected(f, i)

C21_Witness ==
    /\ raw = SumInputs
    /\ pool = <<[f \in {"a.rb"} |-> <<3, Null, 3>>]>>
    /\ flagged = {}

\* C22: one run of the merger on sets in which a file has different line counts
\* completes: the file is reported as MismatchedFileShape and is not in the
\* result, with none of its original entries, while every other file is merged
\* into the result and is not reported.
C22_MismatchExcluded ==
    /\ flagged \subseteq MismatchedFiles(raw)
    /\ (flagged # {} \/ pool # raw) =>
          /\ Len(pool) = 1
          /\ \A f \in FilesOf(raw) :
                IF MismatchedFileShape(raw, f)
                THEN f \in flagged /\ f \notin DOMAIN pool[1]
                ELSE f \notin flagged /\ f \in DOMAIN pool[1]

C22_Witness ==
    /\ raw = MismatchInputs
    /\ flagged = {"a.rb"}
    /\ pool = <<[f \in {"b.rb"} |-> <<3, Null>>]>>

\* C23: the merger run on a single raw result set leaves that set as it is,
\* and after a run on several sets a file that only one of them holds is in
\* the result with exactly the per-line values it had.
C23_SingleInputUnchanged ==
    /\ Len(raw) = 1 => (pool = raw /\ flagged = {})
    /\ Len(pool) = 1 =>
          \A f \in FilesOf(raw) : \A k \in Contributors(raw, f) :
              Contributors(raw, f) = {k} =>
                  (f \in DOMAIN pool[1] /\ pool[1][f] = raw[k][f])

C23_Witness ==
    /\ raw = DisjointInputs
    /\ Len(pool) = 1
    /\ DOMAIN pool[1] = {"a.rb", "b.rb"}
    /\ pool[1]["a.rb"] = <<1, Null>> /\ pool[1]["b.rb"] = <<0>>

C25_TimeoutIsFailedResult ==
    /\ [](\A p \in Procs :
            "send_timeout" \in seen[p] =>
                /\ "send_error" \in reported[p]
                /\ pc[p] \notin {"collect_stop", "collect_send"}
                /\ exc[p] = "crash" => "collect_raise" \in seen[p]
                /\ (pc[p] # "collect_restart" /\ "collect_raise" \notin seen[p])
                      => "collect" \in done[p])
    /\ [][\A p \in Procs :
            ("send_timeout" \notin seen[p] /\ "send_timeout" \in seen[p]') =>
                /\ pc[p]' = "collect_restart"
                /\ applVars' = applVars]_vars

C25_Witness ==
    \E p \in SlaveProcs :
        /\ "send_timeout" \in seen[p]
        /\ "send_error" \in reported[p]
        /\ "collect" \in done[p]
        /\ pc[p] = "done"
        /\ exc[p] = "none"
        /\ evm[current_appliance(p)] # "stopped"

(***************************************************************************)
(* The --ui-coverage option.                                               *)
(***************************************************************************)
\* C26: in a run started without --ui-coverage no process registers the
\* plugin, and no step of the run calls install(), collect() or merge(), resets
\* the output directory, writes or removes the conf, or changes anything on an
\* appliance; in a run started with it, every process registers the plugin
\* once, in its pytest_cmdline_main, and never again.
C26_OnlyWithOption ==
    /\ [](\A p \in Participants :
            registered[p] = IF ui_coverage /\ pc[p] \notin {"unborn", "cmdline"} THEN 1 ELSE 0)
    /\ [](~ui_coverage =>
            \A p \in Procs :
                /\ \A m \in {"install", "collect", "merge", "clean"} : calls[p][m] = 0
                /\ pc[p] \notin InstallSteps \cup CollectSteps \cup MergeSteps)
    /\ [][~ui_coverage =>
            /\ archive' = archive /\ confFile' = confFile
            /\ applVars' = applVars]_vars

C26_Witness ==
    /\ ~ui_coverage
    /\ role[Master] = "master"
    /\ AllDone
    /\ Cardinality(SlaveProcs) >= 2
    /\ \A w \in SlaveProcs : ranTests[w] /\ registered[w] = 0
    /\ archive = StaleArchive /\ confFile # NoConf

(***************************************************************************)
(* What merge() brings back, and what stays in the output directory.       *)
(***************************************************************************)
\* C27 as stated: merge() takes the tar of the coverage directory of the
\* designated collection appliance, and once it has retrieved it the local
\* archive holds the raw results of every worker whose transfer reached the
\* collection appliance.
C27_ArchiveHoldsDelivered ==
    \A p \in Procs :
        /\ pc[p] \in MergeSteps => collection_appliance(p) = DesignatedAppliance
        /\ "get_ok" \in seen[p] =>
              \A w \in SlaveProcs : "send_ok" \in seen[w] => sent[w] \subseteq archive

\* C28: what the local output directory holds is removed by the reset of a
\* session's configure step on the master or standalone process and by nothing
\* else: no step of install(), collect() or merge() changes it except to put
\* the archive where none was, and the archive that merge() retrieved is still
\* there when every process of the session has ended.
C28_ArtifactsStay ==
    /\ [][\A p \in Procs :
            (pc[p] \in InstallSteps \cup CollectSteps \cup MergeSteps /\ pc[p]' # pc[p]) =>
                (archive' = archive \/ archive = NoArchive)]_vars
    /\ [][(archive # NoArchive /\ archive' # archive) =>
            \E p \in Procs :
                /\ role[p] # "slave"
                /\ pc[p] = "configure" /\ pc[p]' = "sessionstart"
                /\ archive' = NoArchive]_vars
    /\ [](\A p \in Procs :
            ("get_ok" \in seen[p] /\ AllDone) => archive \notin {NoArchive, StaleArchive})

C28_Witness ==
    /\ role[Master] = "standalone"
    /\ AllDone
    /\ "collect" \in done[Master] /\ "merge" \in done[Master]
    /\ archive = {current_appliance(Master)}

C30_StopFirstRestartLast ==
    /\ [][\A p \in Procs :
            /\ (pc[p] # "collect_stop" /\ pc[p]' = "collect_stop") => pc[p] = "sessionfinish"
            /\ pc[p] = "collect_stop" => pc[p]' \in {"collect_stop", "collect_send"}
            /\ pc[p] = "collect_send" => pc[p]' \in {"collect_send", "collect_restart"}]_vars
    /\ [](\A p \in Procs :
            (calls[p]["collect"] = 1 /\ pc[p] \notin CollectSteps) =>
                evm[current_appliance(p)] # "stopped")

(***************************************************************************)
(* The version of the appliance.                                           *)
(***************************************************************************)
\* Version 5.8 or above, said of the numbers.
AtLeast58(v) == v[1] > 5 \/ (v[1] = 5 /\ v[2] >= 8)

C32_InstallRemovesOwnOnly ==
    [][\A p \in Procs :
         (pc[p] = "install_hook" /\ pc[p]' = "install_restart") =>
            /\ covDir[current_appliance(p)]' = {}
            /\ \A a \in Appliances \ {current_appliance(p)} : covDir[a]' = covDir[a]
            /\ \A w \in SlaveProcs \ {p} :
                  ("send_ok" \in seen[w] /\ sent[w] \subseteq covDir[DesignatedAppliance])
                      => sent[w] \subseteq covDir[DesignatedAppliance]']_vars

\* C36 as stated: when the hook step of install() had to put the temporary
\* yum repository to get the patch tool, the repository file is gone when the
\* step returns: on no host is it there once install() is past that step.
C36_RepoRemoved ==
    [][\A p \in Procs :
         (pc[p] = "install_hook" /\ pc[p]' = "install_restart") =>
            ~yumRepo[current_appliance(p)]']_vars

\* C33: add_custom_attributes and edit_custom_attributes called with no
\* argument, or with an argument that is not a CustomAttribute, raise
\* TypeError without having sent any request (no GET, no POST), and the
\* provider's attributes are what they were before the call.
BadAttributeArgs(args) ==
    args = <<>> \/ \E i \in DOMAIN args : args[i].kind # "CustomAttribute"
C33_ValidatedBeforeRequest ==
    (call.op \in {"add", "edit"} /\ BadAttributeArgs(call.args))
        => /\ call.raised = "TypeError"
           /\ call.gets = 0
           /\ ~call.posted
           /\ attribs = call.before

\* An edit whose first argument names an attribute the provider has and whose
\* second argument is not a CustomAttribute: nothing was sent.
C33_Witness ==
    /\ call.op = "edit"
    /\ Len(call.args) = 2
    /\ call.args[1].kind = "CustomAttribute"
    /\ \E i \in DOMAIN attribs : attribs[i].name = call.args[1].name
    /\ call.args[2].kind = "other"
    /\ call.raised = "TypeError"
    /\ call.gets = 0
    /\ ~call.posted

\* C34: delete_custom_attributes with an argument that is neither a str nor a
\* CustomAttribute raises TypeError without having sent any request;
\* otherwise it posts one delete whose resources are the hrefs of exactly
\* the attributes the provider had whose name is among those given (a str is
\* the name, a CustomAttribute gives its name), of all the attributes it had
\* when no argument is given, and those attributes are gone afterwards.
GivenNames(args) == {args[i].name : i \in DOMAIN args}
HrefsOf(s) == {s[i].href : i \in DOMAIN s}
ToDelete(as, args) ==
    {as[i].href : i \in {j \in DOMAIN as : args = <<>> \/ as[j].name \in GivenNames(args)}}
C34_DeletesExactlyNamed ==
    call.op = "delete" =>
        IF \E i \in DOMAIN call.args : call.args[i].kind \notin {"str", "CustomAttribute"}
        THEN /\ call.raised = "TypeError"
             /\ call.gets = 0
             /\ ~call.posted
             /\ attribs = call.before
        ELSE /\ call.raised = "none"
             /\ call.posted
             /\ call.action = "delete"
             /\ HrefsOf(call.resources) = ToDelete(call.before, call.args)
             /\ Len(call.resources) = Cardinality(ToDelete(call.before, call.args))
             /\ HrefsOf(attribs) = HrefsOf(call.before) \ ToDelete(call.before, call.args)

\* A delete by a name and by a CustomAttribute that removed one of two
\* attributes, and left the other.
C34_Witness ==
    /\ call.op = "delete"
    /\ Len(call.args) = 2
    /\ call.args[1].kind = "str"
    /\ call.args[2].kind = "CustomAttribute"
    /\ call.args[1].name = call.args[2].name
    /\ Len(call.before) = 2
    /\ Len(call.resources) = 1
    /\ Len(attribs) = 1
    /\ attribs[1].name # call.args[1].name



\* C35: after any sequence of assign_policy_profiles and
\* unassign_policy_profiles calls, assigned_policy_profiles is the set of the
\* names whose most recent call was an assign, whether or not the UI part of
\* the calls succeeded; no call raises KeyError; and an unassign none of
\* whose names is in the set leaves the set as it is.
C35_SetFollowsLastCall ==
    /\ [](/\ assigned_policy_profiles = {n \in Profiles : lastOp[n] = "assign"}
          /\ policyCall.raised # "KeyError")
    /\ [][(/\ policyCall'.op = "unassign"
            /\ policyCall'.names \cap assigned_policy_profiles = {})
              => assigned_policy_profiles' = assigned_policy_profiles]_vars

\* An assign whose UI part raised: the name is in the set although the tree
\* was never saved with it; another name was unassigned without ever having
\* been assigned.
C35_Witness ==
    /\ policyCall.op = "assign"
    /\ policyCall.raised = "UIError"
    /\ \E n \in policyCall.names : n \in assigned /\ n \notin checked
    /\ \E n \in Profiles : lastOp[n] = "unassign" /\ n \notin assigned


====
